---- MODULE Spec2Model ----
(***************************************************************************)
(* A model of github-issue-automator: the IssueTracker ledger              *)
(* (src/src/issue_tracker.py), the poll loop that drives it                *)
(* (src/src/main.py), the RepositoryManager working copy                   *)
(* (src/src/repo_manager.py), the fix attempt of ClaudeExecutor            *)
(* (src/src/claude_executor.py) and the issue fetch of GitHubClient        *)
(* (src/src/github_client.py).                                             *)
(*                                                                         *)
(* The specifications share the variables:                                 *)
(*   Spec        an IssueTracker driven by arbitrary calls of its public   *)
(*               methods, clock advances and restarts between calls;       *)
(*   SpecMark    the same with mark_processed / mark_failed and the clock  *)
(*               only;                                                     *)
(*   SpecPoll    the program of main.py: poll cycles, the daily cleanup    *)
(*               job, crashes followed by a restart;                       *)
(*   SpecFault   the IssueTracker with a process that dies while the file  *)
(*               is written and a file that gets corrupted;                *)
(*   SpecWrite   the IssueTracker with writes of the file that fail;       *)
(*   SpecCleanup cleanup_old_issues on ledgers of up to MaxLedgerId ids;   *)
(*   SpecRepo    a RepositoryManager driven by arbitrary calls of          *)
(*               prepare_for_issue and cleanup_after_issue, one git        *)
(*               command per step, each succeeding, failing or raising;    *)
(*   SpecInit    RepositoryManager.initialize_repo called again and again  *)
(*               on a directory that is missing, a working copy or         *)
(*               something else, one step at a time;                       *)
(*   SpecExec    ClaudeExecutor.execute_issue_fix, one step at a time,     *)
(*               each step ending in every way it can;                     *)
(*   SpecFetch   GitHubClient.get_recent_issues_by_user on listings of up  *)
(*               to MaxListing open issues.                                *)
(* Time is time.time() in whole seconds. In Spec, SpecMark, SpecPoll and   *)
(* SpecCleanup every write of the file succeeds and a method of            *)
(* IssueTracker runs to its end once begun: a restart falls between two    *)
(* calls of the ledger.                                                    *)
(***************************************************************************)
EXTENDS Integers, Sequences, FiniteSets, TLC

\* ------------------------------------------------------------------ bounds

\* Issue numbers are 1..NumIssues.
NumIssues == 2

\* mark_failed is not called on a record whose count has reached MaxCount.
MaxCount == 7

\* The clock stops advancing at MaxTime seconds.
MaxTime == 600

\* keep_last of the daily cleanup job. The source's default is 1000
\* (issue_tracker.py:117); it is scaled down to the model's issue numbers.
KeepLast == 1

\* A fix attempt for an issue is not let succeed more than MaxPullRequests times.
MaxPullRequests == 2

\* The ledgers cleanup_old_issues is tried on hold issue numbers 1..MaxLedgerId.
MaxLedgerId == 9

\* The repository lists at most MaxListing open issues.
MaxListing == 3

\* The number of issues after which a fetch stops. The source's value is 50
\* (github_client.py:49); it is scaled down to the model's listings.
ScanLimit == 2

Issues == 1..NumIssues

LedgerIds == 1..MaxLedgerId

\* The amounts by which one clock step advances time.time(): 5 and 10 minutes.
TickSteps == {300, 600}

\* ------------------------------------------------------------------- state

VARIABLES
    processed_issues,    \* IssueTracker.processed_issues: a set of issue numbers
    failed_attempts,     \* IssueTracker.failed_attempts: issue number -> record
    storage,             \* the file at storage_path
    now,                 \* time.time()
    pc,                  \* where process_new_issues stands ("idle": not running)
    unprocessed_issues,  \* main.py's local list of the cycle
    idx,                 \* position of the for loop in unprocessed_issues
    success,             \* main.py's local: result of execute_issue_fix
    open_issues,         \* tracker: open issues of the target user (no pull requests)
    pull_requests,       \* remote: pull requests opened per issue
    ever_processed,      \* history: issues mark_processed was applied to
    sent,                \* issue source: the calls made for the issue handled last
    worktree,            \* the git working copy at RepositoryManager.repo_dir
    current_branch,      \* RepositoryManager.current_branch
    call,                \* the call of RepositoryManager under way, or the last one
    executor,            \* the call of ClaudeExecutor.execute_issue_fix, likewise
    pushed,              \* remote: issues whose fix-issue branch has been pushed
    scan                 \* GitHubClient: the issue listing, and what a fetch made of it

ledger == <<processed_issues, failed_attempts, storage>>
poll == <<pc, unprocessed_issues, idx, success>>
repo == <<worktree, current_branch, call>>
world == <<open_issues, pull_requests, ever_processed, sent, repo,
           executor, pushed, scan>>
vars == <<processed_issues, failed_attempts, storage, now,
          pc, unprocessed_issues, idx, success,
          open_issues, pull_requests, ever_processed, sent,
          worktree, current_branch, call, executor, pushed, scan>>

\* What the poll loop of main.py does not touch.
outside_poll == <<repo, executor, pushed, scan>>

\* ----------------------------------------------------------------- helpers

Min(a, b) == IF a <= b THEN a ELSE b

Range(s) == {s[k] : k \in DOMAIN s}

MaxOf(S) == CHOOSE x \in S : \A y \in S : y <= x

MinOf(S) == CHOOSE x \in S : \A y \in S : x <= y

\* sorted(S): the elements of S in ascending order.
RECURSIVE sorted(_)
sorted(S) == IF S = {} THEN <<>> ELSE <<MinOf(S)>> \o sorted(S \ {MinOf(S)})

\* sorted(S, reverse=True): the elements of S in descending order.
RECURSIVE sorted_reverse(_)
sorted_reverse(S) ==
    IF S = {} THEN <<>> ELSE <<MaxOf(S)>> \o sorted_reverse(S \ {MaxOf(S)})

\* s[:n]
Take(s, n) == SubSeq(s, 1, Min(n, Len(s)))

\* str(k) of an issue number, as json.dump writes the keys of failed_attempts.
str(k) == ToString(k)

\* int(k) of a key read back from the file.
int(k) == CHOOSE i \in Issues : ToString(i) = k

\* ------------------------------------------------------ IssueTracker: file

\* No file at storage_path.
NoFile == [kind |-> "missing", processed_issues |-> <<>>, failed_attempts |-> <<>>]

\* A file json.load cannot parse: an empty file, the beginning of a document,
\* or anything else.
Unparsable ==
    [kind |-> "unparsable", processed_issues |-> <<>>, failed_attempts |-> <<>>]

\* _save_processed_issues: the whole ledger, the set as a sorted list, the keys
\* of failed_attempts as strings.
save_processed_issues(processed, failed) ==
    [kind |-> "json",
     processed_issues |-> sorted(processed),
     failed_attempts |->
        [k \in {str(i) : i \in DOMAIN failed} |-> failed[int(k)]]]

\* Faulty variant: the failed attempts are not read back.
load_without_failed_attempts(file) ==
    IF file.kind = "json"
    THEN [processed_issues |-> Range(file.processed_issues),
          failed_attempts |-> <<>>]
    ELSE [processed_issues |-> {}, failed_attempts |-> <<>>]

\* Line 33 raises ValueError on a key k for which this is false.
is_int(k) == \E i \in Issues : ToString(i) = k

\* Faulty variant: the except branch leaves what line 30 has assigned.
load_keeping_partial(file) ==
    IF file.kind = "missing"
    THEN [processed_issues |-> {}, failed_attempts |-> <<>>]
    ELSE IF file.kind = "json"
    THEN IF \A k \in DOMAIN file.failed_attempts : is_int(k)
         THEN [processed_issues |-> Range(file.processed_issues),
               failed_attempts |->
                  [i \in {int(k) : k \in DOMAIN file.failed_attempts}
                      |-> file.failed_attempts[str(i)]]]
         ELSE [processed_issues |-> Range(file.processed_issues),
               failed_attempts |-> <<>>]
    ELSE [processed_issues |-> {}, failed_attempts |-> <<>>]

\* _load_processed_issues: what the constructor reads from the file. No file:
\* the empty ledger of lines 15-16 stays. json.load raising (line 28) or int(k)
\* raising (line 33, after line 30 has assigned processed_issues) ends in the
\* except branch, which empties both (lines 39-40).
load_processed_issues(file) ==
    IF file.kind = "missing"
    THEN [processed_issues |-> {}, failed_attempts |-> <<>>]
    ELSE IF file.kind = "json" /\ \A k \in DOMAIN file.failed_attempts : is_int(k)
    THEN [processed_issues |-> Range(file.processed_issues),
          failed_attempts |->
             [i \in {int(k) : k \in DOMAIN file.failed_attempts}
                 |-> file.failed_attempts[str(i)]]]
    ELSE [processed_issues |-> {}, failed_attempts |-> <<>>]

\* --------------------------------------------------- IssueTracker: queries

is_processed(issue_number) == issue_number \in processed_issues

\* Faulty variant: the failed record is consulted before the processed set.
should_retry_issue_failed_first(issue_number) ==
    IF issue_number \in DOMAIN failed_attempts
    THEN now >= failed_attempts[issue_number].next_retry
    ELSE issue_number \notin processed_issues

\* Faulty variant: the backoff is over only after next_retry, not at it.
should_retry_issue_strict(issue_number) ==
    IF issue_number \in processed_issues THEN FALSE
    ELSE IF issue_number \notin DOMAIN failed_attempts THEN TRUE
    ELSE IF now > failed_attempts[issue_number].next_retry THEN TRUE
    ELSE FALSE

should_retry_issue(issue_number) ==
    IF issue_number \in processed_issues THEN FALSE
    ELSE IF issue_number \notin DOMAIN failed_attempts THEN TRUE
    ELSE IF now >= failed_attempts[issue_number].next_retry THEN TRUE
    ELSE FALSE

get_processed_count == Cardinality(processed_issues)

\* ------------------------------------------------- IssueTracker: mutations

\* Faulty variant: the exponent is the count, not the count less one.
backoff_minutes_off_by_one(failure_count) == Min(5 * (3 ^ failure_count), 1440)

\* Line 101: min(5 * (3 ** (failure_count - 1)), 1440).
backoff_minutes(failure_count) == Min(5 * (3 ^ (failure_count - 1)), 1440)

\* The record mark_failed leaves for a failure counted failure_count at current_time.
failure_record(failure_count, current_time) ==
    [count |-> failure_count,
     last_attempt |-> current_time,
     next_retry |-> current_time + backoff_minutes(failure_count) * 60,
     backoff_minutes |-> backoff_minutes(failure_count)]

\* f with key k set to v (a dict assignment).
Put(f, k, v) == [x \in DOMAIN f \cup {k} |-> IF x = k THEN v ELSE f[x]]

\* f without key k (del f[k]).
Del(f, k) == [x \in DOMAIN f \ {k} |-> f[x]]

\* mark_processed's effect on the ledger in memory: <<processed, failed, saved>>.
mark_processed_result(issue_number) ==
    IF issue_number \notin processed_issues
    THEN <<processed_issues \cup {issue_number},
           IF issue_number \in DOMAIN failed_attempts
           THEN Del(failed_attempts, issue_number) ELSE failed_attempts,
           TRUE>>
    ELSE <<processed_issues, failed_attempts, FALSE>>

mark_processed(issue_number) ==
    LET r == mark_processed_result(issue_number) IN
    /\ processed_issues' = r[1]
    /\ failed_attempts' = r[2]
    /\ storage' = IF r[3] THEN save_processed_issues(r[1], r[2]) ELSE storage

\* Faulty variant: the failed records of the other issues are dropped.
mark_failed_result_alone(issue_number) ==
    LET failure_count ==
            IF issue_number \in DOMAIN failed_attempts
            THEN failed_attempts[issue_number].count + 1
            ELSE 1
    IN Put(<<>>, issue_number, failure_record(failure_count, now))

\* mark_failed's new failed_attempts.
mark_failed_result(issue_number) ==
    LET failure_count ==
            IF issue_number \in DOMAIN failed_attempts
            THEN failed_attempts[issue_number].count + 1
            ELSE 1
    IN Put(failed_attempts, issue_number, failure_record(failure_count, now))

mark_failed(issue_number) ==
    /\ failed_attempts' = mark_failed_result(issue_number)
    /\ processed_issues' = processed_issues
    /\ storage' = save_processed_issues(processed_issues, failed_attempts')

\* Faulty variant: the keep_last smallest numbers are kept.
cleanup_result_oldest(keep_last) ==
    IF Cardinality(processed_issues) > keep_last
    THEN Range(Take(sorted(processed_issues), keep_last))
    ELSE processed_issues

\* cleanup_old_issues' new processed_issues.
cleanup_result(keep_last) ==
    IF Cardinality(processed_issues) > keep_last
    THEN Range(Take(sorted_reverse(processed_issues), keep_last))
    ELSE processed_issues

\* Faulty variant: the shortened set is not written to the file.
cleanup_old_issues_unsaved(keep_last) ==
    /\ processed_issues' = cleanup_result(keep_last)
    /\ failed_attempts' = failed_attempts
    /\ storage' = storage

cleanup_old_issues(keep_last) ==
    /\ processed_issues' = cleanup_result(keep_last)
    /\ failed_attempts' = failed_attempts
    /\ storage' = IF Cardinality(processed_issues) > keep_last
                  THEN save_processed_issues(processed_issues', failed_attempts)
                  ELSE storage

\* IssueTracker(): a new instance on the same storage_path.
new_issue_tracker ==
    LET data == load_processed_issues(storage) IN
    /\ processed_issues' = data.processed_issues
    /\ failed_attempts' = data.failed_attempts
    /\ storage' = storage

\* ------------------------------------------- RepositoryManager: git and calls

\* Python's None, for a branch name that is not set.
None == "None"

\* Line 116: f"fix-issue-{issue_number}".
branch_name(issue_number) == "fix-issue-" \o ToString(issue_number)

\* The git commands prepare_for_issue and cleanup_after_issue run.
Commands == {"reset", "clean", "checkout_main", "pull", "branch_D", "checkout_b"}

\* What becomes of one subprocess.run(['git', ...]): "ok", git does what it
\* does in this working copy; "fail", it exits non-zero without effect for a
\* reason outside the working copy's state (a lock, a conflict, the network);
\* "raise", subprocess.run raises.
Outcomes == {"ok", "fail", "raise"}

\* A working copy on main without issue branches and without changes.
\* branches are the local fix-issue-* branches, ahead those of them with
\* commits main does not have.
CleanWorktree(dir) ==
    [dir |-> dir, head |-> "main", branches |-> {}, ahead |-> {},
     modified |-> FALSE, untracked |-> FALSE]

\* Whether git carries the command out in working copy w: branch -D needs an
\* existing branch that is not checked out, checkout -b a name not yet taken.
can_do(cmd, w, b) ==
    CASE cmd = "branch_D" -> b \in w.branches /\ w.head # b
      [] cmd = "checkout_b" -> b \notin w.branches
      [] OTHER -> TRUE

\* How the command ends: exit status 0 ("ok"), non-zero ("fail"), or an
\* exception out of subprocess.run ("raise").
exit_code(cmd, w, b, out) ==
    IF out = "raise" THEN "raise"
    ELSE IF out = "ok" /\ can_do(cmd, w, b) THEN "ok"
    ELSE "fail"

\* The working copy after the command has exited with status 0.
git(cmd, w, b) ==
    CASE cmd = "reset" -> [w EXCEPT !.modified = FALSE]
      [] cmd = "clean" -> [w EXCEPT !.untracked = FALSE]
      [] cmd = "checkout_main" -> [w EXCEPT !.head = "main"]
      [] cmd = "pull" -> w
      [] cmd = "branch_D" ->
            [w EXCEPT !.branches = @ \ {b}, !.ahead = @ \ {b}]
      [] OTHER ->
            [w EXCEPT !.branches = @ \cup {b}, !.head = b]

\* The commands whose exit status a call keeps: those on which branches and
\* the return value depend.
Logged == {"checkout_main", "pull", "branch_D", "checkout_b"}

\* No call of RepositoryManager made yet. faults: some command of the call
\* did not end "ok" for a reason outside the working copy.
NoCall ==
    [name |-> "none", issue_number |-> 0, success |-> FALSE,
     branch_name |-> None, entry_head |-> None, at |-> "none",
     faults |-> FALSE, exit |-> [c \in Logged |-> "none"],
     prev |-> [name |-> "none", issue_number |-> 0, at |-> "none"]]

\* The issue source before any call of add_comment or close_issue for issue
\* i (0: for no issue): the in-progress comment, the comment on the outcome
\* and the close call are "none", not made, "ok" or "failed".
NothingSent(i) ==
    [issue |-> i, start |-> "none", report |-> "none", close |-> "none"]

\* What one call of add_comment or close_issue comes to: GitHubClient catches
\* every exception and returns False (github_client.py:77-79, 89-91).
Delivery == {"ok", "failed"}

\* The steps of execute_issue_fix that can go wrong: os.makedirs and the four
\* helpers, _create_pr with its two subprocesses.
Steps == {"makedirs", "clone", "branch", "agent", "push", "pr"}

\* No call of execute_issue_fix made yet. at: the step to run next, "none",
\* or the first component of the returned pair; ended: how each step that
\* ran has ended; payload: the stdout of the agent.
NoExecution ==
    [at |-> "none", issue_number |-> 0, payload |-> "none",
     ended |-> [st \in Steps |-> "none"]]

\* The listing repo.get_issues(state='open', sort='created',
\* direction='desc') gives, before a fetch: nothing examined, nothing returned.
NoScan(listing) ==
    [listing |-> listing, result |-> "none", examined |-> 0, returned |-> <<>>]

\* RepositoryManager(...), lines 13-20, with the working copy it finds when
\* nothing has used it yet.
new_repository_manager(dir) ==
    /\ worktree = CleanWorktree(dir)
    /\ current_branch = None
    /\ call = NoCall

\* What a call remembers of the call before it.
summary(c) ==
    [name |-> c.name, issue_number |-> c.issue_number, at |-> c.at]

\* Faulty variant: the result of checkout -b is not looked at.
prepare_flow_unchecked_create(at, code) ==
    IF code = "raise" THEN "False"
    ELSE CASE at = "reset" -> "clean"
           [] at = "clean" -> "checkout_main"
           [] at = "checkout_main" -> IF code = "ok" THEN "pull" ELSE "False"
           [] at = "pull" -> "branch_D"
           [] at = "branch_D" -> "checkout_b"
           [] OTHER -> "True"

\* Faulty variant: an existing branch of the name is not deleted first.
prepare_flow_no_delete(at, code) ==
    IF code = "raise" THEN "False"
    ELSE CASE at = "reset" -> "clean"
           [] at = "clean" -> "checkout_main"
           [] at = "checkout_main" -> IF code = "ok" THEN "pull" ELSE "False"
           [] at = "pull" -> "checkout_b"
           [] at = "branch_D" -> "checkout_b"
           [] OTHER -> IF code = "ok" THEN "True" ELSE "False"

\* prepare_for_issue, lines 123-173: where it goes after the command at `at`
\* has ended with `code`: the next command, or the value it returns.
prepare_flow(at, code) ==
    IF code = "raise" THEN "False"
    ELSE CASE at = "reset" -> "clean"
           [] at = "clean" -> "checkout_main"
           [] at = "checkout_main" -> IF code = "ok" THEN "pull" ELSE "False"
           [] at = "pull" -> "branch_D"
           [] at = "branch_D" -> "checkout_b"
           [] OTHER -> IF code = "ok" THEN "True" ELSE "False"

\* Faulty variant: the branch of a failed attempt is never deleted.
cleanup_flow_keep_branch(at, code, delete) ==
    IF code = "raise" THEN "False"
    ELSE CASE at = "checkout_main" -> "reset"
           [] at = "branch_D" -> "reset"
           [] at = "reset" -> "clean"
           [] OTHER -> "True"

\* cleanup_after_issue, lines 182-207: the same; delete is the condition of
\* line 190.
cleanup_flow(at, code, delete) ==
    IF code = "raise" THEN "False"
    ELSE CASE at = "checkout_main" -> IF delete THEN "branch_D" ELSE "reset"
           [] at = "branch_D" -> "reset"
           [] at = "reset" -> "clean"
           [] OTHER -> "True"

\* ----------------------------------------------- Spec: the ledger's methods

Init ==
    /\ storage = NoFile
    /\ processed_issues = {}
    /\ failed_attempts = <<>>
    /\ now = 0
    /\ pc = "idle"
    /\ unprocessed_issues = <<>>
    /\ idx = 0
    /\ success = FALSE
    /\ open_issues = Issues
    /\ pull_requests = [i \in Issues |-> 0]
    /\ ever_processed = {}
    /\ sent = NothingSent(0)
    /\ executor = NoExecution
    /\ pushed = {}
    /\ scan = NoScan(<<>>)
    /\ new_repository_manager("valid")

MarkProcessed(i) ==
    /\ mark_processed(i)
    /\ UNCHANGED <<now, poll, world>>

MarkFailed(i) ==
    /\ i \in DOMAIN failed_attempts => failed_attempts[i].count < MaxCount
    /\ mark_failed(i)
    /\ UNCHANGED <<now, poll, world>>

CleanupOldIssues(keep_last) ==
    /\ cleanup_old_issues(keep_last)
    /\ UNCHANGED <<now, poll, world>>

Restart ==
    /\ new_issue_tracker
    /\ UNCHANGED <<now, poll, world>>

Tick ==
    /\ \E d \in TickSteps : now + d <= MaxTime /\ now' = now + d
    /\ UNCHANGED <<ledger, poll, world>>

Next ==
    \/ \E i \in Issues : MarkProcessed(i)
    \/ \E i \in Issues : MarkFailed(i)
    \/ \E keep_last \in 0..NumIssues : CleanupOldIssues(keep_last)
    \/ Restart
    \/ Tick

Spec == Init /\ [][Next]_vars

NextMark ==
    \/ \E i \in Issues : MarkProcessed(i)
    \/ \E i \in Issues : MarkFailed(i)
    \/ Tick

SpecMark == Init /\ [][NextMark]_vars

\* ------------------------------ SpecFault: the ledger and a file that breaks

\* The calls of IssueTracker that change the ledger.
LedgerCalls ==
    [name : {"mark_processed", "mark_failed"}, arg : Issues]
    \cup [name : {"cleanup_old_issues"}, arg : 0..NumIssues]

\* What call c makes of the ledger in memory, and whether it reaches
\* _save_processed_issues: <<processed, failed, saved>>.
call_result(c) ==
    CASE c.name = "mark_processed" -> mark_processed_result(c.arg)
      [] c.name = "mark_failed" ->
            <<processed_issues, mark_failed_result(c.arg), TRUE>>
      [] OTHER ->
            <<cleanup_result(c.arg), failed_attempts,
              Cardinality(processed_issues) > c.arg>>

\* The process dies in _save_processed_issues of call c, between open(..., 'w')
\* of line 50, which has emptied the file, and the end of json.dump's writes
\* (line 51): the file holds the beginning of the document, possibly nothing.
\* The process is started again and builds its IssueTracker from that file.
CrashInWrite(c) ==
    /\ call_result(c)[3]
    /\ c.name = "mark_failed" /\ c.arg \in DOMAIN failed_attempts
          => failed_attempts[c.arg].count < MaxCount
    /\ storage' = Unparsable
    /\ processed_issues' = load_processed_issues(storage').processed_issues
    /\ failed_attempts' = load_processed_issues(storage').failed_attempts
    /\ UNCHANGED <<now, poll, world>>

\* A key of failed_attempts that int() does not accept.
MalformedKey == "x"

\* Something other than the program changes the file: it becomes unparsable,
\* or its failed_attempts gets a key that is no number.
CorruptStore ==
    /\ storage.kind = "json"
    /\ \/ storage' = Unparsable
       \/ /\ MalformedKey \notin DOMAIN storage.failed_attempts
          /\ storage' =
                [storage EXCEPT !.failed_attempts =
                    [k \in DOMAIN @ \cup {MalformedKey} |->
                        IF k = MalformedKey THEN failure_record(1, 0) ELSE @[k]]]
    /\ UNCHANGED <<processed_issues, failed_attempts, now, poll, world>>

NextFault ==
    \/ \E i \in Issues : MarkProcessed(i)
    \/ \E i \in Issues : MarkFailed(i)
    \/ \E keep_last \in 0..NumIssues : CleanupOldIssues(keep_last)
    \/ \E c \in LedgerCalls : CrashInWrite(c)
    \/ CorruptStore
    \/ Restart

SpecFault == Init /\ [][NextFault]_vars

\* ------------------------------------ SpecWrite: writes of the file that fail

\* Where _save_processed_issues can raise while the file is written: in
\* open(..., 'w') of line 50 (no permission, no directory), which leaves the
\* file alone, or in json.dump's writes and the close that flushes them
\* (line 51: disk full, I/O error), after open has emptied the file.
WriteFaults == {"open", "dump"}

\* The file after a write that failed at `at`.
failed_write(at, file) == IF at = "open" THEN file ELSE Unparsable

\* Call c changes the ledger in memory and its _save_processed_issues fails
\* at `at`: lines 53-54 log the exception and the call returns normally.
SaveFails(c, at) ==
    /\ call_result(c)[3]
    /\ c.name = "mark_failed" /\ c.arg \in DOMAIN failed_attempts
          => failed_attempts[c.arg].count < MaxCount
    /\ processed_issues' = call_result(c)[1]
    /\ failed_attempts' = call_result(c)[2]
    /\ storage' = failed_write(at, storage)
    /\ UNCHANGED <<now, poll, world>>

NextWrite ==
    \/ \E i \in Issues : MarkProcessed(i)
    \/ \E i \in Issues : MarkFailed(i)
    \/ \E keep_last \in 0..NumIssues : CleanupOldIssues(keep_last)
    \/ \E c \in LedgerCalls, at \in WriteFaults : SaveFails(c, at)
    \/ Restart

SpecWrite == Init /\ [][NextWrite]_vars

\* ------------------------------------- SpecCleanup: cleanup_old_issues alone

\* A ledger that mark_processed has filled with any set of numbers of
\* LedgerIds (each call wrote the file), no failure recorded.
InitCleanup ==
    /\ processed_issues \in SUBSET LedgerIds
    /\ failed_attempts = <<>>
    /\ storage = IF processed_issues = {} THEN NoFile
                 ELSE save_processed_issues(processed_issues, <<>>)
    /\ now = 0
    /\ pc = "idle"
    /\ unprocessed_issues = <<>>
    /\ idx = 0
    /\ success = FALSE
    /\ open_issues = Issues
    /\ pull_requests = [i \in Issues |-> 0]
    /\ ever_processed = processed_issues
    /\ sent = NothingSent(0)
    /\ executor = NoExecution
    /\ pushed = {}
    /\ scan = NoScan(<<>>)
    /\ new_repository_manager("valid")

NextCleanup == \E keep_last \in 0..MaxLedgerId : CleanupOldIssues(keep_last)

SpecCleanup == InitCleanup /\ [][NextCleanup]_vars

\* --------------------------------------------- SpecPoll: the program main.py

\* GitHubClient.get_unprocessed_issues_by_user(username, processed_issues): the
\* open issues of the target user that are no pull requests, most recent
\* first, without those already seen (the ids in processed_issues).
get_unprocessed_issues_by_user(processed) ==
    sorted_reverse(open_issues \ processed)

\* The issue of the current iteration of the for loop.
issue == unprocessed_issues[idx]

\* The file as the process finds it at startup. It outlives the process, so
\* it is an input of main.py: absent, or written by an IssueTracker on the same
\* path whose mark_failed recorded one failure of one issue at time 0 (the
\* loader reads such records back, line 31-33). main.py itself only ever calls
\* mark_processed and cleanup_old_issues.
StartStorage ==
    {NoFile} \cup
    {save_processed_issues({}, Put(<<>>, i, failure_record(1, 0))) : i \in Issues}

InitPoll ==
    /\ storage \in StartStorage
    /\ processed_issues = load_processed_issues(storage).processed_issues
    /\ failed_attempts = load_processed_issues(storage).failed_attempts
    /\ now = 0
    /\ pc = "idle"
    /\ unprocessed_issues = <<>>
    /\ idx = 0
    /\ success = FALSE
    /\ open_issues = Issues
    /\ pull_requests = [i \in Issues |-> 0]
    /\ ever_processed = {}
    /\ sent = NothingSent(0)
    /\ executor = NoExecution
    /\ pushed = {}
    /\ scan = NoScan(<<>>)
    /\ new_repository_manager("valid")

\* Lines 22-42: the clients are built and the issues fetched; an empty list
\* returns at once.
FetchIssues ==
    /\ pc = "idle"
    /\ unprocessed_issues' = get_unprocessed_issues_by_user(processed_issues)
    /\ idx' = 0
    /\ pc' = IF unprocessed_issues' = <<>> THEN "idle" ELSE "for"
    /\ UNCHANGED <<ledger, now, success, world>>

\* Line 45: the for loop takes the next issue, or ends (line 103).
ForLoop ==
    /\ pc = "for"
    /\ IF idx < Len(unprocessed_issues)
       THEN /\ idx' = idx + 1
            /\ pc' = "comment"
            /\ sent' = NothingSent(unprocessed_issues[idx + 1])
            /\ UNCHANGED unprocessed_issues
       ELSE /\ idx' = 0
            /\ pc' = "idle"
            /\ unprocessed_issues' = <<>>
            /\ UNCHANGED sent
    /\ UNCHANGED <<ledger, now, success, open_issues, pull_requests,
                   ever_processed, outside_poll>>

\* Faulty variant: an issue whose in-progress comment fails is given up.
AddStartComment_needed ==
    /\ pc = "comment"
    /\ \E d \in Delivery :
          /\ sent' = [sent EXCEPT !.start = d]
          /\ pc' = IF d = "ok" THEN "fix" ELSE "for"
    /\ UNCHANGED <<ledger, now, unprocessed_issues, idx, success, open_issues,
                   pull_requests, ever_processed, outside_poll>>

\* Lines 48-56: the in-progress comment, posted or not.
AddStartComment ==
    /\ pc = "comment"
    /\ \E d \in Delivery : sent' = [sent EXCEPT !.start = d]
    /\ pc' = "fix"
    /\ UNCHANGED <<ledger, now, unprocessed_issues, idx, success, open_issues,
                   pull_requests, ever_processed, outside_poll>>

\* Lines 59-64: execute_issue_fix returns (success, message); a success has
\* pushed the branch and opened a pull request.
ExecuteIssueFix ==
    /\ pc = "fix"
    /\ \E ok \in BOOLEAN :
          /\ ok => pull_requests[issue] < MaxPullRequests
          /\ success' = ok
          /\ pull_requests' =
                IF ok THEN [pull_requests EXCEPT ![issue] = @ + 1]
                ELSE pull_requests
    /\ pc' = "report"
    /\ UNCHANGED <<ledger, now, unprocessed_issues, idx, open_issues,
                   ever_processed, sent, outside_poll>>

\* Faulty variant: close_issue is called whatever the fix attempt came to.
ReportOutcome_always_close ==
    /\ pc = "report"
    /\ \E commented, closed \in Delivery :
          /\ sent' = [sent EXCEPT !.report = commented, !.close = closed]
          /\ open_issues' =
                IF closed = "ok" THEN open_issues \ {issue} ELSE open_issues
    /\ pc' = "mark"
    /\ UNCHANGED <<ledger, now, unprocessed_issues, idx, success,
                   pull_requests, ever_processed, outside_poll>>

\* Lines 66-97: on success a comment and close_issue, which closes the issue
\* or fails; on failure a comment.
ReportOutcome ==
    /\ pc = "report"
    /\ IF success
       THEN \E commented, closed \in Delivery :
               /\ sent' = [sent EXCEPT !.report = commented, !.close = closed]
               /\ open_issues' =
                     IF closed = "ok" THEN open_issues \ {issue} ELSE open_issues
       ELSE \E commented \in Delivery :
               /\ sent' = [sent EXCEPT !.report = commented]
               /\ open_issues' = open_issues
    /\ pc' = "mark"
    /\ UNCHANGED <<ledger, now, unprocessed_issues, idx, success,
                   pull_requests, ever_processed, outside_poll>>

\* Lines 99-100: issue_tracker.mark_processed(issue.number), whatever success is.
RecordOutcome ==
    /\ pc = "mark"
    /\ mark_processed(issue)
    /\ ever_processed' = ever_processed \cup {issue}
    /\ pc' = "for"
    /\ UNCHANGED <<now, unprocessed_issues, idx, success, open_issues,
                   pull_requests, sent, outside_poll>>

\* Faulty variant: the daily job also runs while a cycle is under way.
DailyCleanup_in_cycle ==
    /\ cleanup_old_issues(KeepLast)
    /\ UNCHANGED <<now, poll, world>>

\* Line 192: the daily job. schedule.run_pending() (line 201) runs the due
\* jobs one after another in the main thread, so it runs between cycles.
DailyCleanup ==
    /\ pc = "idle"
    /\ cleanup_old_issues(KeepLast)
    /\ UNCHANGED <<now, poll, world>>

\* A statement of the try block of lines 22-103 raises an Exception: the
\* construction of the clients or the fetch (before the loop), or a statement
\* of the loop body. Control goes to the handler of line 105.
RaiseInCycle ==
    /\ pc \in {"idle", "for", "comment", "fix", "report", "mark"}
    /\ pc' = "except"
    /\ UNCHANGED <<ledger, now, unprocessed_issues, idx, success, world>>

\* Faulty variant: the handler records the issue at hand as processed.
ExceptHandler_marking ==
    /\ pc = "except"
    /\ IF idx >= 1
       THEN mark_processed(issue)
       ELSE UNCHANGED ledger
    /\ pc' = "idle"
    /\ unprocessed_issues' = <<>>
    /\ idx' = 0
    /\ UNCHANGED <<now, success, world>>

\* Lines 105-106: the handler logs the exception and process_new_issues
\* returns to its caller, main (line 196) or schedule.run_pending (line 201).
ExceptHandler ==
    /\ pc = "except"
    /\ pc' = "idle"
    /\ unprocessed_issues' = <<>>
    /\ idx' = 0
    /\ UNCHANGED <<ledger, now, success, world>>

\* The process dies at any point and is started again: line 16 builds a new
\* IssueTracker from the file, the locals of the cycle are gone.
CrashRestart ==
    /\ new_issue_tracker
    /\ pc' = "idle"
    /\ unprocessed_issues' = <<>>
    /\ idx' = 0
    /\ success' = FALSE
    /\ UNCHANGED <<now, world>>

NextPoll ==
    \/ FetchIssues
    \/ ForLoop
    \/ AddStartComment
    \/ ExecuteIssueFix
    \/ ReportOutcome
    \/ RecordOutcome
    \/ DailyCleanup
    \/ RaiseInCycle
    \/ ExceptHandler
    \/ CrashRestart
    \/ Tick

SpecPoll == InitPoll /\ [][NextPoll]_vars

\* ----------------------------------- SpecExec: ClaudeExecutor's fix attempt

\* How a step can end. os.makedirs returns ("ok") or raises; a subprocess
\* exits with status 0 or another, cannot be launched ("raise"), or, where
\* subprocess.run is given a timeout (lines 67, 208), runs out of time.
endings(st) ==
    CASE st = "makedirs" -> {"ok", "raise"}
      [] st \in {"clone", "agent"} -> {"exit0", "nonzero", "timeout", "raise"}
      [] OTHER -> {"exit0", "nonzero", "raise"}

\* The stdout of an agent that exited with status 0: nothing, text that is
\* no JSON, a JSON object whose 'content', if any, is text, a JSON object
\* whose 'content' is null or a number, a JSON value that is no object or
\* array (null, a number).
Payloads == {"absent", "not_json", "object", "object_content_not_text", "not_object"}

\* Lines 212-227: json.loads and the logging of the response. "raised": an
\* exception other than JSONDecodeError leaves the inner try.
parse_response(payload) ==
    CASE payload \in {"absent", "not_json"} -> "True"
      [] payload = "object" -> "True"
      [] OTHER -> "raised"

\* What the step gives execute_issue_fix: the first component of the pair a
\* helper returns, or "raised". The helpers turn every exception into False
\* (lines 74-77, 91-92, 233-238, 262-263); os.makedirs (line 25) is called
\* directly.
step_result(st, ending, payload) ==
    CASE st = "makedirs" -> IF ending = "ok" THEN "True" ELSE "raised"
      [] st = "agent" /\ ending = "exit0" ->
            IF parse_response(payload) = "raised" THEN "False"
            ELSE parse_response(payload)
      [] OTHER -> IF ending = "exit0" THEN "True" ELSE "False"

\* The step after st.
next_step(st) ==
    CASE st = "makedirs" -> "clone"
      [] st = "clone" -> "branch"
      [] st = "branch" -> "agent"
      [] st = "agent" -> "push"
      [] st = "push" -> "pr"
      [] OTHER -> "True"

\* Faulty variant: gh pr create is run although the push has failed.
execute_flow_pr_after_push(st, result) ==
    IF result = "raised" THEN "False"
    ELSE IF result = "False" /\ st # "push" THEN "False"
    ELSE next_step(st)

\* Faulty variant: no except branch in execute_issue_fix.
execute_flow_uncaught(st, result) ==
    IF result = "raised" THEN "raised"
    ELSE IF result = "False" THEN "False"
    ELSE next_step(st)

\* execute_issue_fix, lines 22-57 (and _create_pr, lines 247-260): where it
\* goes after step st has given result: the next step, or the first
\* component of the pair it returns. An exception ends in line 57. The
\* finally branch removes the directory of the attempt and returns nothing.
execute_flow(st, result) ==
    IF result = "raised" THEN "False"
    ELSE IF result = "False" THEN "False"
    ELSE next_step(st)

\* What ClaudeExecutor does not touch.
outside_executor ==
    <<ledger, now, poll, open_issues, ever_processed, sent, repo, scan>>

\* execute_issue_fix is called for an issue.
CallExecute(issue_number) ==
    /\ executor.at \notin Steps
    /\ executor' = [NoExecution EXCEPT !.at = "makedirs",
                                       !.issue_number = issue_number]
    /\ UNCHANGED <<pull_requests, pushed, outside_executor>>

\* The step at hand ends; a push that exits with 0 has put the branch on the
\* remote, a gh pr create that exits with 0 has opened a pull request.
ExecStep(ending, payload) ==
    /\ executor.at \in Steps
    /\ ending \in endings(executor.at)
    /\ (payload # "none") <=> (executor.at = "agent" /\ ending = "exit0")
    /\ (executor.at = "pr" /\ ending = "exit0")
          => pull_requests[executor.issue_number] < MaxPullRequests
    /\ executor' =
          [executor EXCEPT
              !.at = execute_flow(executor.at,
                                  step_result(executor.at, ending, payload)),
              !.ended[executor.at] = ending,
              !.payload = IF executor.at = "agent" THEN payload ELSE @]
    /\ pushed' =
          IF executor.at = "push" /\ ending = "exit0"
          THEN pushed \cup {executor.issue_number} ELSE pushed
    /\ pull_requests' =
          IF executor.at = "pr" /\ ending = "exit0"
          THEN [pull_requests EXCEPT ![executor.issue_number] = @ + 1]
          ELSE pull_requests
    /\ UNCHANGED outside_executor

NextExec ==
    \/ \E issue_number \in Issues : CallExecute(issue_number)
    \/ \E ending \in {"ok", "exit0", "nonzero", "timeout", "raise"},
          payload \in Payloads \cup {"none"} : ExecStep(ending, payload)

SpecExec == Init /\ [][NextExec]_vars

\* ------------------------------------------ SpecFetch: GitHubClient's fetch

\* What repo.get_issues(state='open', sort='created', direction='desc')
\* yields: the open issues and pull requests, the newest first. Numbers are
\* given in the order of creation, so they descend; an entry is recent when
\* it was created at or after the cutoff time of the call (line 22), and
\* an entry older than one that is not recent is not recent either.
Entries ==
    [number : 1..MaxListing, login : {"target", "other"},
     pull_request : BOOLEAN, recent : BOOLEAN]

Listings ==
    UNION {{l \in [1..n -> Entries] :
               /\ \A k \in 1..n : l[k].number = n + 1 - k
               /\ \A j, k \in 1..n : (j < k /\ l[k].recent) => l[j].recent} :
           n \in 0..MaxListing}

\* The for loop of get_recent_issues_by_user (lines 33-50) entered at entry
\* k with recent_issues collected so far: <<issue_count, recent_issues>> at
\* its end.
scan_issues(listing, k, recent_issues) ==
    LET from[j \in 1..(Len(listing) + 1)] ==
          IF j > Len(listing) THEN <<j - 1, <<>>>>
          ELSE LET e == listing[j]
                   taken == IF e.recent /\ e.login = "target"
                               /\ ~e.pull_request
                            THEN <<e.number>> ELSE <<>>
               IN  IF ~e.recent THEN <<j, <<>>>>
                   ELSE IF j >= ScanLimit THEN <<j, taken>>
                   ELSE <<from[j + 1][1], taken \o from[j + 1][2]>>
    IN  <<from[k][1], recent_issues \o from[k][2]>>

\* What GitHubClient does not touch.
outside_scan ==
    <<ledger, now, poll, open_issues, pull_requests, ever_processed, sent,
      repo, executor, pushed>>

InitFetch ==
    /\ storage = NoFile
    /\ processed_issues = {}
    /\ failed_attempts = <<>>
    /\ now = 0
    /\ pc = "idle"
    /\ unprocessed_issues = <<>>
    /\ idx = 0
    /\ success = FALSE
    /\ open_issues = Issues
    /\ pull_requests = [i \in Issues |-> 0]
    /\ ever_processed = {}
    /\ sent = NothingSent(0)
    /\ new_repository_manager("valid")
    /\ executor = NoExecution
    /\ pushed = {}
    /\ \E listing \in Listings : scan = NoScan(listing)

\* get_recent_issues_by_user runs to its return in line 59.
GetRecentIssuesByUser ==
    /\ scan' = [scan EXCEPT
                   !.result = "ok",
                   !.examined = scan_issues(scan.listing, 1, <<>>)[1],
                   !.returned = scan_issues(scan.listing, 1, <<>>)[2]]
    /\ UNCHANGED outside_scan

\* A call of the GitHub API raises after examined issues: lines 61-63
\* return the empty list.
GetRecentIssuesRaises(examined) ==
    /\ examined <= scan_issues(scan.listing, 1, <<>>)[1]
    /\ scan' = [scan EXCEPT !.result = "raised", !.examined = examined,
                            !.returned = <<>>]
    /\ UNCHANGED outside_scan

NextFetch ==
    \/ GetRecentIssuesByUser
    \/ \E examined \in 0..MaxListing : GetRecentIssuesRaises(examined)

SpecFetch == InitFetch /\ [][NextFetch]_vars

\* ------------------------------------ SpecRepo: RepositoryManager's methods

\* The caller's thread is inside a method of RepositoryManager.
in_call == call.at \in Commands

\* What RepositoryManager does not touch.
outside_repo ==
    <<ledger, now, poll, open_issues, pull_requests, ever_processed, sent,
      executor, pushed, scan>>

InitRepo ==
    /\ storage = NoFile
    /\ processed_issues = {}
    /\ failed_attempts = <<>>
    /\ now = 0
    /\ pc = "idle"
    /\ unprocessed_issues = <<>>
    /\ idx = 0
    /\ success = FALSE
    /\ open_issues = Issues
    /\ pull_requests = [i \in Issues |-> 0]
    /\ ever_processed = {}
    /\ sent = NothingSent(0)
    /\ executor = NoExecution
    /\ pushed = {}
    /\ scan = NoScan(<<>>)
    /\ \E dir \in {"missing", "valid"} : new_repository_manager(dir)

\* prepare_for_issue is called: lines 116-120. Without the directory it
\* returns False at once.
CallPrepare(issue_number) ==
    /\ ~in_call
    /\ call' =
          [NoCall EXCEPT
              !.name = "prepare_for_issue",
              !.issue_number = issue_number,
              !.branch_name = branch_name(issue_number),
              !.entry_head = worktree.head,
              !.at = IF worktree.dir = "missing" THEN "False" ELSE "reset",
              !.prev = summary(call)]
    /\ UNCHANGED <<worktree, current_branch, outside_repo>>

\* cleanup_after_issue is called: lines 177-179. Without the directory it
\* returns True at once. branch_name is self.current_branch, which the call
\* does not change before it returns.
CallCleanup(s) ==
    /\ ~in_call
    /\ call' =
          [NoCall EXCEPT
              !.name = "cleanup_after_issue",
              !.success = s,
              !.branch_name = current_branch,
              !.entry_head = worktree.head,
              !.at = IF worktree.dir = "missing" THEN "True" ELSE "checkout_main",
              !.prev = summary(call)]
    /\ UNCHANGED <<worktree, current_branch, outside_repo>>

\* The call under way runs its next git command, which ends with `out`.
run_git(out, next_at) ==
    LET code == exit_code(call.at, worktree, call.branch_name, out) IN
    /\ worktree' =
          IF code = "ok" THEN git(call.at, worktree, call.branch_name)
          ELSE worktree
    /\ call' = [call EXCEPT
                    !.at = next_at,
                    !.exit = [c \in Logged |-> IF c = call.at THEN code ELSE @[c]],
                    !.faults = @ \/ out # "ok"]

\* One command of prepare_for_issue (lines 123-169); line 165 sets
\* current_branch when it returns True.
PrepareStep(out) ==
    /\ in_call
    /\ call.name = "prepare_for_issue"
    /\ LET code == exit_code(call.at, worktree, call.branch_name, out)
           next_at == prepare_flow(call.at, code)
       IN /\ run_git(out, next_at)
          /\ current_branch' =
                IF next_at = "True" THEN call.branch_name ELSE current_branch
    /\ UNCHANGED outside_repo

\* One command of cleanup_after_issue (lines 182-203); line 202 clears
\* current_branch when it returns True.
CleanupStep(out) ==
    /\ in_call
    /\ call.name = "cleanup_after_issue"
    /\ LET code == exit_code(call.at, worktree, call.branch_name, out)
           next_at == cleanup_flow(call.at, code,
                                   current_branch # None /\ ~call.success)
       IN /\ run_git(out, next_at)
          /\ current_branch' =
                IF next_at = "True" THEN None ELSE current_branch
    /\ UNCHANGED outside_repo

\* Between a prepare_for_issue that returned True and the cleanup, the fix
\* agent works in the working copy: it may edit tracked files, add files and
\* commit on the issue branch.
AgentWork ==
    /\ call.name = "prepare_for_issue"
    /\ call.at = "True"
    /\ worktree.head = call.branch_name
    /\ \E m, u, c \in BOOLEAN :
          worktree' =
             [worktree EXCEPT
                 !.modified = m, !.untracked = u,
                 !.ahead = IF c THEN @ \cup {worktree.head} ELSE @]
    /\ UNCHANGED <<current_branch, call, outside_repo>>

\* The process dies, at any point, and is started again: a new
\* RepositoryManager (line 17) on the working copy as it was left.
RepoRestart ==
    /\ current_branch' = None
    /\ call' = NoCall
    /\ UNCHANGED <<worktree, outside_repo>>

NextRepo ==
    \/ \E issue_number \in Issues : CallPrepare(issue_number)
    \/ \E out \in Outcomes : PrepareStep(out)
    \/ \E s \in BOOLEAN : CallCleanup(s)
    \/ \E out \in Outcomes : CleanupStep(out)
    \/ AgentWork
    \/ RepoRestart

SpecRepo == InitRepo /\ [][NextRepo]_vars

\* ------------------------------- SpecInit: RepositoryManager.initialize_repo

\* The steps of initialize_repo (lines 32-69) and of _update_repo (lines
\* 84-100) that can go wrong.
UpdateCommands == {"update_set_url", "update_checkout_main", "update_fetch"}
InitCommands ==
    {"rev_parse", "rmtree", "mkdir", "clone", "set_url"} \cup UpdateCommands

\* How a step can end: "ok" and "fail" are exit status 0 and non-zero of a
\* subprocess, "raise" an exception out of the call (for a subprocess: it
\* cannot be launched), "timeout" the end of the time given to git clone
\* (line 56) and git fetch (line 99). shutil.rmtree and mkdir return or
\* raise. What git rev-parse --git-dir exits with is decided by the
\* directory.
init_endings(cmd, w) ==
    CASE cmd = "rev_parse" ->
            {IF w.dir = "valid" THEN "ok" ELSE "fail", "raise"}
      [] cmd \in {"rmtree", "mkdir"} -> {"ok", "raise"}
      [] cmd \in {"clone", "update_fetch"} -> {"ok", "fail", "timeout", "raise"}
      [] cmd = "update_checkout_main" ->
            {IF w.head = "unborn" THEN "fail" ELSE "ok", "fail", "raise"}
      [] OTHER -> {"ok", "fail", "raise"}

\* The step ends other than "ok" for a reason outside the directory.
init_fault(cmd, w, ending) ==
    /\ ending # "ok"
    /\ ~(ending = "fail" /\ cmd = "rev_parse")
    /\ ~(ending = "fail" /\ cmd = "update_checkout_main" /\ w.head = "unborn")

\* A clone that was killed when its time ran out: nothing, a directory that
\* is no working copy, or a working copy without any commit.
KilledClone ==
    {CleanWorktree("missing"), CleanWorktree("invalid"),
     [CleanWorktree("valid") EXCEPT !.head = "unborn"]}

\* The directories the step can leave behind.
init_effect(cmd, w, ending) ==
    CASE cmd = "rmtree" /\ ending = "ok" -> {CleanWorktree("missing")}
      [] cmd = "rmtree" /\ ending = "raise" -> {CleanWorktree("invalid")}
      [] cmd = "clone" /\ ending = "ok" -> {CleanWorktree("valid")}
      [] cmd = "clone" /\ ending = "timeout" -> KilledClone
      [] cmd = "update_checkout_main" /\ ending = "ok" ->
            {git("checkout_main", w, None)}
      [] OTHER -> {w}

\* Faulty variant: a fetch that fails makes the call fail.
initialize_flow_fetch_decides(at, ending) ==
    CASE at = "rev_parse" ->
            IF ending = "raise" THEN "False"
            ELSE IF ending = "ok" THEN "update_set_url" ELSE "rmtree"
      [] at = "rmtree" -> IF ending = "ok" THEN "mkdir" ELSE "False"
      [] at = "mkdir" -> IF ending = "ok" THEN "clone" ELSE "False"
      [] at = "clone" -> IF ending = "ok" THEN "set_url" ELSE "False"
      [] at = "set_url" -> IF ending = "raise" THEN "False" ELSE "True"
      [] at = "update_set_url" ->
            IF ending = "raise" THEN "True" ELSE "update_checkout_main"
      [] at = "update_checkout_main" ->
            IF ending = "ok" THEN "update_fetch" ELSE "True"
      [] OTHER -> IF ending = "ok" THEN "True" ELSE "False"

\* initialize_repo, lines 31-78, and _update_repo, lines 82-111: where the
\* call goes after the step at `at` has ended with `ending`: the next step,
\* or the first component of the pair it returns. git checkout main is run
\* with check=True, so a non-zero exit raises into line 109.
initialize_flow(at, ending) ==
    CASE at = "rev_parse" ->
            IF ending = "raise" THEN "False"
            ELSE IF ending = "ok" THEN "update_set_url" ELSE "rmtree"
      [] at = "rmtree" -> IF ending = "ok" THEN "mkdir" ELSE "False"
      [] at = "mkdir" -> IF ending = "ok" THEN "clone" ELSE "False"
      [] at = "clone" -> IF ending = "ok" THEN "set_url" ELSE "False"
      [] at = "set_url" -> IF ending = "raise" THEN "False" ELSE "True"
      [] at = "update_set_url" ->
            IF ending = "raise" THEN "True" ELSE "update_checkout_main"
      [] at = "update_checkout_main" ->
            IF ending = "ok" THEN "update_fetch" ELSE "True"
      [] OTHER -> "True"

\* The directories a RepositoryManager can find: none, one that is no
\* working copy, a working copy as prepare_for_issue, the fix agent and
\* cleanup_after_issue can have left it.
Worktrees ==
    {CleanWorktree("missing"), CleanWorktree("invalid")} \cup
    {w \in [dir : {"valid"},
            head : {"main"} \cup {branch_name(i) : i \in Issues},
            branches : SUBSET {branch_name(i) : i \in Issues},
            ahead : SUBSET {branch_name(i) : i \in Issues},
            modified : BOOLEAN, untracked : BOOLEAN] :
        /\ w.head \in {"main"} \cup w.branches
        /\ w.ahead \subseteq w.branches}

InitInit ==
    /\ storage = NoFile
    /\ processed_issues = {}
    /\ failed_attempts = <<>>
    /\ now = 0
    /\ pc = "idle"
    /\ unprocessed_issues = <<>>
    /\ idx = 0
    /\ success = FALSE
    /\ open_issues = Issues
    /\ pull_requests = [i \in Issues |-> 0]
    /\ ever_processed = {}
    /\ sent = NothingSent(0)
    /\ executor = NoExecution
    /\ pushed = {}
    /\ scan = NoScan(<<>>)
    /\ worktree \in Worktrees
    /\ current_branch = None
    /\ call = NoCall

\* initialize_repo is called: line 32. prev.at is how the call before it
\* returned, "faulted" if one of its steps ended other than "ok" for a
\* reason outside the directory.
CallInitialize ==
    /\ call.at \notin InitCommands
    /\ call' =
          [NoCall EXCEPT
              !.name = "initialize_repo",
              !.entry_head = worktree.head,
              !.at = IF worktree.dir = "missing" THEN "mkdir" ELSE "rev_parse",
              !.prev = [name |-> call.name, issue_number |-> 0,
                        at |-> IF call.faults THEN "faulted" ELSE call.at]]
    /\ UNCHANGED <<worktree, current_branch, outside_repo>>

\* The step at hand ends.
InitializeStep(ending) ==
    /\ call.name = "initialize_repo"
    /\ call.at \in InitCommands
    /\ ending \in init_endings(call.at, worktree)
    /\ worktree' \in init_effect(call.at, worktree, ending)
    /\ call' =
          [call EXCEPT
              !.at = initialize_flow(call.at, ending),
              !.faults = @ \/ init_fault(call.at, worktree, ending)]
    /\ UNCHANGED <<current_branch, outside_repo>>

NextInit ==
    \/ CallInitialize
    \/ \E ending \in {"ok", "fail", "timeout", "raise"} : InitializeStep(ending)

SpecInit == InitInit /\ [][NextInit]_vars

\* ------------------------------------------------------------------ claims

\* C1: when a cycle has finished handling an issue (the step of lines 99-100),
\* a successful fix has put it in processed_issues, and a failed fix has
\* applied mark_failed to it (count one more than before, or 1; backoff from
\* the current time) and has not put it in processed_issues.
C1_OutcomeRecorded ==
    [][(pc = "mark" /\ pc' = "for") =>
          IF success
          THEN issue \in processed_issues'
          ELSE /\ issue \notin processed_issues'
               /\ issue \in DOMAIN failed_attempts'
               /\ failed_attempts'[issue].count =
                     (IF issue \in DOMAIN failed_attempts
                      THEN failed_attempts[issue].count + 1 ELSE 1)
               /\ failed_attempts'[issue].next_retry > now]_vars

C3_ProcessedIsSticky ==
    [][\A i \in Issues :
          (is_processed(i) \/ MarkProcessed(i)) =>
             (is_processed(i)' /\ ~should_retry_issue(i)')]_vars

\* C3 witness: a processed issue on which mark_failed was called later, with
\* the clock past the next_retry of that record.
C3_Witness ==
    \E i \in Issues :
       /\ i \in processed_issues
       /\ i \in DOMAIN failed_attempts
       /\ now >= failed_attempts[i].next_retry

\* C4: no cycle starts a fix attempt (execute_issue_fix) for an issue that an
\* earlier cycle marked processed.
C4_ProcessedNeverRevisited ==
    [][(pc = "fix" /\ pc' = "report") => issue \notin ever_processed]_vars

\* C5: at most one fix attempt per issue ever ends in a pushed branch and an
\* opened pull request.
C5_AtMostOnePullRequest ==
    \A i \in Issues : pull_requests[i] <= 1

\* C6: no issue number is in processed_issues and in failed_attempts at once.
C6_ProcessedFailedDisjoint ==
    processed_issues \cap DOMAIN failed_attempts = {}

\* C7: should_retry_issue(i) is false for a processed i, true for an i with
\* neither a processed nor a failed entry, and for a failed, unprocessed i true
\* exactly when the clock has reached next_retry; right after mark_failed(i)
\* it is false.
C7_ShouldRetryReference ==
    /\ [](\A i \in Issues :
            should_retry_issue(i) =
               (CASE i \in processed_issues -> FALSE
                  [] i \notin processed_issues /\ i \notin DOMAIN failed_attempts -> TRUE
                  [] OTHER -> now >= failed_attempts[i].next_retry))
    /\ [][\A i \in Issues : MarkFailed(i) => ~should_retry_issue(i)']_vars

\* C7 witness: a failed, unprocessed issue at the moment the clock reaches its
\* next_retry.
C7_Witness ==
    \E i \in DOMAIN failed_attempts :
       /\ i \notin processed_issues
       /\ now = failed_attempts[i].next_retry
       /\ should_retry_issue(i)

C9_StatedDelay(n) ==
    CASE n = 1 -> 5 [] n = 2 -> 15 [] n = 3 -> 45 [] n = 4 -> 120
      [] n = 5 -> 360 [] OTHER -> 1440

\* C9: the delay applied by the n-th consecutive mark_failed of an issue is
\* 5, 15, 45, 120, 360 minutes for n = 1..5 and 1440 minutes from n = 6 on.
C9_BackoffSequence ==
    \A i \in DOMAIN failed_attempts :
       failed_attempts[i].next_retry - failed_attempts[i].last_attempt
          = 60 * C9_StatedDelay(failed_attempts[i].count)

C11_Largest(S, N) == {x \in S : Cardinality({y \in S : y > x}) < N}

\* C11: cleanup_old_issues(keep_last=N) on a processed set of more than N
\* numbers leaves exactly its N numerically largest ones ({1,2,3,5,9} with
\* N = 2 becomes {5,9}), and leaves a set of N or fewer numbers as it is.
C11_KeepsLargest ==
    [][\A N \in 0..MaxLedgerId :
          CleanupOldIssues(N) =>
             /\ processed_issues' =
                   (IF Cardinality(processed_issues) > N
                    THEN C11_Largest(processed_issues, N)
                    ELSE processed_issues)
             /\ (processed_issues = {1, 2, 3, 5, 9} /\ N = 2)
                   => processed_issues' = {5, 9}]_vars

\* C11 witness: the ledger that held {1,2,3,5,9} after a cleanup that kept
\* its two largest numbers, the file rewritten.
C11_Witness ==
    /\ ever_processed = {1, 2, 3, 5, 9}
    /\ processed_issues = {5, 9}
    /\ storage.processed_issues = <<5, 9>>

C13_CrashKeepsHistory ==
    [][\A c \in LedgerCalls :
          CrashInWrite(c) =>
             LET before == load_processed_issues(storage) IN
             /\ before.processed_issues \subseteq processed_issues'
             /\ \A i \in DOMAIN before.failed_attempts :
                   /\ i \in DOMAIN failed_attempts'
                   /\ failed_attempts'[i] = before.failed_attempts[i]]_vars

\* The file cannot be loaded: json.load or int(k) raises.
C14_Corrupt(file) ==
    \/ file.kind = "unparsable"
    \/ file.kind = "json" /\ \E k \in DOMAIN file.failed_attempts : ~is_int(k)

\* C14: from a file that is missing, unparsable, or parsable with a key of
\* failed_attempts that is no number, the constructor loads an empty processed
\* set and an empty failed map, never a part of the file; the restarted
\* process starts with that empty ledger.
C14_CorruptLoadsEmpty ==
    /\ []((storage.kind = "missing" \/ C14_Corrupt(storage)) =>
            /\ load_processed_issues(storage).processed_issues = {}
            /\ load_processed_issues(storage).failed_attempts = <<>>)
    /\ [][(Restart /\ (storage.kind = "missing" \/ C14_Corrupt(storage))) =>
            (processed_issues' = {} /\ failed_attempts' = <<>>)]_vars

\* C14 witness: a file with a processed list, a good failed record and a
\* malformed key, and the empty ledger a restart has loaded from it.
C14_Witness ==
    /\ storage.kind = "json"
    /\ storage.processed_issues # <<>>
    /\ \E k \in DOMAIN storage.failed_attempts : is_int(k)
    /\ MalformedKey \in DOMAIN storage.failed_attempts
    /\ processed_issues = {}
    /\ failed_attempts = <<>>

\* C15: one issue is handled at a moment. While a cycle is at an issue, all
\* issues before it in the fetched list have had their ledger update; while a
\* cycle runs its list is not replaced (no other cycle starts), the ledger
\* loses no number (no maintenance job runs), and the loop moves from an
\* issue to the next one of the list only from its head, after the ledger
\* update of the previous one.
C15_OneIssueAtATime ==
    /\ [](pc # "idle" =>
            /\ idx \in 0..Len(unprocessed_issues)
            /\ \A j \in 1..(idx - 1) : unprocessed_issues[j] \in processed_issues
            /\ pc = "for" =>
                  \A j \in 1..idx : unprocessed_issues[j] \in processed_issues
            /\ pc \notin {"for", "except"} => idx >= 1)
    /\ [][(pc # "idle" /\ pc' # "idle") =>
            /\ unprocessed_issues' = unprocessed_issues
            /\ processed_issues \subseteq processed_issues'
            /\ idx' = idx \/ (idx' = idx + 1 /\ pc = "for")]_vars

\* C15 witness: a cycle at the fix attempt of the second issue of its list,
\* the first one recorded in the ledger and in the file.
C15_Witness ==
    /\ pc = "fix"
    /\ idx = 2
    /\ unprocessed_issues[1] \in processed_issues
    /\ unprocessed_issues[1] \in Range(storage.processed_issues)
    /\ unprocessed_issues[2] \notin processed_issues

\* C16: for every issue the poll loop handles, the fix agent runs only after
\* prepare_for_issue has been called for that issue and has returned success
\* (then cleanup_after_issue, then the ledger update).
C16_PrepareBeforeFix ==
    [][ExecuteIssueFix =>
          /\ call.name = "prepare_for_issue"
          /\ call.issue_number = issue
          /\ call.at = "True"]_vars

\* C17: whatever the exit statuses of its git commands, once
\* cleanup_after_issue has run to its return the working copy is on main, has
\* no uncommitted and no untracked changes, and after a failed attempt does
\* not hold the branch of that attempt.
C17_CleanAfterCleanup ==
    (call.name = "cleanup_after_issue" /\ call.at = "True"
        /\ worktree.dir = "valid") =>
       /\ worktree.head = "main"
       /\ ~worktree.modified
       /\ ~worktree.untracked
       /\ (~call.success /\ call.branch_name # None)
             => call.branch_name \notin worktree.branches

\* A call of the named method returns in this step.
C18_Returns(name) ==
    /\ call.name = name
    /\ in_call
    /\ call'.name = name
    /\ ~in_call'

\* C18: with every git command doing its work, prepare_for_issue(i) returns
\* success on branch fix-issue-i, and a cleanup_after_issue(s) that follows it
\* as the next call leaves the working copy on main without changes,
\* current_branch None, and the branch fix-issue-i there exactly when s.
C18_PrepareThenCleanup ==
    /\ [][(C18_Returns("prepare_for_issue") /\ ~call'.faults) =>
            /\ call'.at = "True"
            /\ worktree'.head = call.branch_name
            /\ current_branch' = call.branch_name]_vars
    /\ []((/\ call.name = "cleanup_after_issue"
           /\ ~in_call
           /\ ~call.faults
           /\ call.prev.name = "prepare_for_issue"
           /\ call.prev.at = "True") =>
             /\ call.at = "True"
             /\ worktree.head = "main"
             /\ ~worktree.modified
             /\ ~worktree.untracked
             /\ current_branch = None
             /\ (branch_name(call.prev.issue_number) \in worktree.branches)
                   <=> call.success)

\* C18 witness: cleanup_after_issue(False) returned after a successful
\* prepare_for_issue, entered on the issue branch, which it has deleted.
C18_Witness ==
    /\ call.name = "cleanup_after_issue"
    /\ call.at = "True"
    /\ ~call.faults
    /\ ~call.success
    /\ call.prev.name = "prepare_for_issue"
    /\ call.prev.at = "True"
    /\ call.entry_head = branch_name(call.prev.issue_number)
    /\ call.exit["branch_D"] = "ok"
    /\ worktree.branches = {}

\* C19: prepare_for_issue(i) on the working copy a crashed attempt at i left
\* behind (restarted process, still on fix-issue-i, with or without changes
\* and commits), every git command doing its work: the call returns success,
\* has deleted the stale branch, and leaves a fix-issue-i without commits of
\* its own checked out, the tree without changes.
C19_PrepareAfterCrash ==
    [][(/\ C18_Returns("prepare_for_issue")
        /\ ~call'.faults
        /\ call.prev.name = "none"
        /\ call.entry_head = call.branch_name) =>
          /\ call'.at = "True"
          /\ call'.exit["branch_D"] = "ok"
          /\ worktree'.head = call.branch_name
          /\ call.branch_name \in worktree'.branches
          /\ call.branch_name \notin worktree'.ahead
          /\ ~worktree'.modified
          /\ ~worktree'.untracked
          /\ current_branch' = call.branch_name]_vars

\* C19 witness: the state such a call returns in.
C19_Witness ==
    /\ call.name = "prepare_for_issue"
    /\ call.at = "True"
    /\ ~call.faults
    /\ call.prev.name = "none"
    /\ call.entry_head = call.branch_name
    /\ call.exit["branch_D"] = "ok"
    /\ worktree.head = call.branch_name
    /\ call.branch_name \notin worktree.ahead
    /\ ~worktree.modified
    /\ ~worktree.untracked

\* C20: with the working copy present, prepare_for_issue returns True exactly
\* when git checkout main and git checkout -b both exit with status 0, and
\* otherwise returns False (also when a command raises); up to and including
\* a failing checkout of main it pulls nothing, deletes and creates no
\* branch and leaves current_branch alone, and after that failure it returns.
C20_PrepareResult ==
    /\ []((call.name = "prepare_for_issue" /\ ~in_call
             /\ worktree.dir = "valid") =>
             /\ call.at \in {"True", "False"}
             /\ (call.at = "True") <=>
                   (call.exit["checkout_main"] = "ok"
                      /\ call.exit["checkout_b"] = "ok"))
    /\ [][(/\ call.name = "prepare_for_issue"
           /\ call'.name = "prepare_for_issue"
           /\ call.at \in {"reset", "clean", "checkout_main"}) =>
             /\ worktree'.branches = worktree.branches
             /\ current_branch' = current_branch
             /\ \A c \in {"pull", "branch_D", "checkout_b"} :
                   call'.exit[c] = "none"
             /\ (call.at = "checkout_main" /\ call'.exit["checkout_main"] # "ok")
                   => call'.at = "False"]_vars

\* C20 witness: a call that returned True although the pull and the deletion
\* of the branch failed.
C20_Witness ==
    /\ call.name = "prepare_for_issue"
    /\ call.at = "True"
    /\ call.faults
    /\ call.exit["pull"] = "fail"
    /\ call.exit["branch_D"] = "fail"
    /\ call.exit["checkout_b"] = "ok"
    /\ current_branch = call.branch_name

\* C27: in every reachable ledger state and for every id, the ledger that a
\* call mark_processed(id) leaves has id in processed_issues and no entry for
\* id in failed_attempts, also when id was processed before the call.
C27_MarkProcessedPostcondition ==
    \A i \in Issues :
       LET r == mark_processed_result(i) IN
       /\ i \in r[1]
       /\ i \notin DOMAIN r[2]

\* C30: mark_failed(i) leaves processed_issues and the failed record of every
\* other id as they are; mark_processed(i) leaves the membership and the
\* failed record of every other id as they are; cleanup_old_issues leaves
\* failed_attempts as it is; no step but mark_processed(i) removes the failed
\* record of i.
C30_LedgerFrame ==
    /\ [][\A i \in Issues :
            MarkFailed(i) =>
               /\ processed_issues' = processed_issues
               /\ \A j \in Issues \ {i} :
                     /\ (j \in DOMAIN failed_attempts') = (j \in DOMAIN failed_attempts)
                     /\ j \in DOMAIN failed_attempts
                           => failed_attempts'[j] = failed_attempts[j]]_vars
    /\ [][\A i \in Issues :
            MarkProcessed(i) =>
               \A j \in Issues \ {i} :
                  /\ (j \in processed_issues') = (j \in processed_issues)
                  /\ (j \in DOMAIN failed_attempts') = (j \in DOMAIN failed_attempts)
                  /\ j \in DOMAIN failed_attempts
                        => failed_attempts'[j] = failed_attempts[j]]_vars
    /\ [][\A keep_last \in 0..NumIssues :
            CleanupOldIssues(keep_last) => failed_attempts' = failed_attempts]_vars
    /\ [][\A i \in DOMAIN failed_attempts :
            i \notin DOMAIN failed_attempts' => MarkProcessed(i)]_vars

\* C30 witness: two failed records, one of them counted twice, next to a
\* processed issue that a cleanup has left in the ledger.
C30_Witness ==
    /\ Cardinality(DOMAIN failed_attempts) = 2
    /\ \E i, j \in DOMAIN failed_attempts :
          failed_attempts[i].count = 2 /\ failed_attempts[j].count = 1
    /\ Cardinality(processed_issues) = 1
    /\ Len(storage.processed_issues) = 1

\* C23: in a poll cycle a close call for the issue at hand is sent exactly
\* when its fix attempt has succeeded: never for a failed attempt; and the
\* ledger update of a never-seen issue whose attempt succeeded takes it from
\* absent to processed.
C23_CloseIffSuccess ==
    /\ [](pc \in {"comment", "fix", "report"} =>
            (sent.issue = issue /\ sent.close = "none"))
    /\ [](pc = "mark" =>
            (sent.issue = issue /\ ((sent.close # "none") <=> success)))
    /\ [][(RecordOutcome /\ success /\ issue \notin processed_issues
             /\ issue \notin DOMAIN failed_attempts) =>
            (issue \in processed_issues' /\ sent' = sent)]_vars

\* C23 witness: a never-seen issue after its ledger update, the fix succeeded,
\* the close call sent and the issue closed.
C23_Witness ==
    /\ pc = "for"
    /\ idx >= 1
    /\ success
    /\ sent.issue = issue
    /\ sent.close = "ok"
    /\ issue \in processed_issues
    /\ issue \notin open_issues
    /\ pull_requests[issue] = 1

\* C24: whichever of the add_comment and close_issue calls for an issue fail,
\* the fix attempt is run after the in-progress comment, the ledger update
\* follows the report and is the same mark_processed, the loop goes on to the
\* remaining issues, and at the end of the cycle every issue of the list is
\* processed without a failed record.
C24_NotificationsDoNotMatter ==
    /\ [][AddStartComment => (pc' = "fix" /\ UNCHANGED <<ledger, idx>>)]_vars
    /\ [][ReportOutcome =>
            (pc' = "mark" /\ UNCHANGED <<ledger, idx, unprocessed_issues>>)]_vars
    /\ [][RecordOutcome =>
            /\ processed_issues' = processed_issues \cup {issue}
            /\ issue \notin DOMAIN failed_attempts'
            /\ pc' = "for"
            /\ UNCHANGED <<idx, unprocessed_issues>>]_vars
    /\ []((pc = "for" /\ idx = Len(unprocessed_issues)) =>
            \A j \in 1..idx :
               /\ unprocessed_issues[j] \in processed_issues
               /\ unprocessed_issues[j] \notin DOMAIN failed_attempts)

\* C24 witness: the end of a cycle of two issues, both in the ledger, where
\* all three calls for the second one failed.
C24_Witness ==
    /\ pc = "for"
    /\ idx = 2
    /\ Len(unprocessed_issues) = 2
    /\ Range(unprocessed_issues) \subseteq processed_issues
    /\ sent.issue = unprocessed_issues[2]
    /\ sent.start = "failed"
    /\ sent.report = "failed"
    /\ sent.close = "failed"

\* C25: an exception raised in a poll cycle ends in the handler of
\* process_new_issues, which returns to the scheduler loop; neither the raise
\* nor the handler changes the ledger or its file, and a later cycle can
\* start.
C25_CycleExceptionCaught ==
    /\ [][(pc = "except" \/ pc' = "except") =>
            /\ UNCHANGED <<processed_issues, failed_attempts, storage>>
            /\ pc' \in {"except", "idle"}]_vars
    /\ [](pc = "idle" => ENABLED FetchIssues)

\* C25 witness: the handler entered from the loop body, with the first issue
\* of the list recorded and the second, commented on, not.
C25_Witness ==
    /\ pc = "except"
    /\ idx = 2
    /\ unprocessed_issues[1] \in processed_issues
    /\ issue \notin processed_issues
    /\ sent.issue = issue
    /\ sent.start # "none"


\* The steps of a fix attempt that run a subprocess, in the order of the code.
ran(st) == executor.ended[st] # "none"
earlier(st) ==
    CASE st = "clone" -> {}
      [] st = "branch" -> {"clone"}
      [] st = "agent" -> {"clone", "branch"}
      [] st = "push" -> {"clone", "branch", "agent"}
      [] OTHER -> {"clone", "branch", "agent", "push"}
Subprocesses == {"clone", "branch", "agent", "push", "pr"}

\* C21: execute_issue_fix returns success exactly when clone, branch
\* creation, agent run, push and pull request creation have all ended with
\* exit status 0; a step runs only after every earlier one has ended with 0;
\* nothing is pushed and no pull request is opened after a failed agent run,
\* no pull request after a failed push; a failed push or pull request
\* creation makes the call fail.
C21_StepsInOrder ==
    /\ [](/\ \A st \in Subprocesses :
               ran(st) => \A e \in earlier(st) : executor.ended[e] = "exit0"
          /\ (executor.at = "True")
                <=> (\A st \in Subprocesses : executor.ended[st] = "exit0")
          /\ (ran("agent") /\ executor.ended["agent"] # "exit0")
                => (~ran("push") /\ ~ran("pr"))
          /\ (ran("push") /\ executor.ended["push"] # "exit0") => ~ran("pr")
          /\ \A st \in {"push", "pr"} :
               (ran(st) /\ executor.ended[st] # "exit0")
                  => executor.at = "False")
    /\ [][/\ pushed' # pushed
               => (executor.ended["agent"] = "exit0" /\ executor.at = "push")
          /\ pull_requests' # pull_requests
               => (executor.ended["push"] = "exit0" /\ executor.at = "pr")]_vars

\* A whole attempt has succeeded and its pull request is open.
C21_Witness ==
    /\ executor.at = "True"
    /\ executor.issue_number \in pushed
    /\ pull_requests[executor.issue_number] >= 1

\* C22: however each subprocess of a fix attempt ends (status 0, another
\* status, timeout, launch fault), execute_issue_fix returns a pair and
\* raises nothing; an agent run that times out or cannot be launched gives
\* success = False.
C22_NeverRaises ==
    /\ executor.at \in Steps \cup {"none", "True", "False"}
    /\ (\E st \in Steps : executor.ended[st] \in {"timeout", "raise", "nonzero"})
          => executor.at = "False"

\* The agent has run out of time and the call has returned failure.
C22_Witness ==
    /\ executor.ended["agent"] = "timeout"
    /\ executor.at = "False"
    /\ ~ran("push")

\* C29: an agent run that exits with status 0 is a success of the agent
\* step whatever its payload (absent, malformed, well-formed), so the push
\* comes next; one that exits with another status or times out is a failure.
C29_ExitCodeDecides ==
    (ran("agent") /\ ~ran("push"))
       => ((executor.at = "push") <=> (executor.ended["agent"] = "exit0"))


\* The entries of a listing that a scan limited to ScanLimit issues covers.
scanned(listing) == SubSeq(listing, 1, Min(ScanLimit, Len(listing)))

by_target_user(e) == e.login = "target" /\ ~e.pull_request

\* The numbers of the entries of seq, in the order of seq.
numbers_of(seq) == [k \in 1..Len(seq) |-> seq[k].number]

\* C26: a fetch that returns normally gives, newest first, exactly the open
\* issues of the target user that are no pull requests among the (at most
\* ScanLimit) newest open issues, and examines no more than ScanLimit.
C26_FetchReturnsAllOfUser ==
    scan.result = "ok"
       => /\ scan.examined <= ScanLimit
          /\ scan.returned = 
                 numbers_of(SelectSeq(scanned(scan.listing), by_target_user))


\* A step of initialize_repo is taken.
initialize_steps ==
    /\ call.name = "initialize_repo"
    /\ call.at \in InitCommands
    /\ call' # call

\* C28: initialize_repo clones when the directory is missing; on a
\* directory that is a working copy it neither deletes nor clones and
\* returns success whatever becomes of the update, a failed fetch included;
\* a directory that is no working copy is removed and cloned anew; a call
\* that follows a call without faults and meets none itself leaves the
\* directory as it found it and returns success as well.
C28_InitializeIdempotent ==
    /\ [][/\ (call.at \notin InitCommands /\ call'.name = "initialize_repo"
               /\ call'.at \in InitCommands)
              => /\ worktree' = worktree
                 /\ (call'.at = "mkdir") <=> (worktree.dir = "missing")
                 /\ (call'.at = "rev_parse") <=> (worktree.dir # "missing")
          /\ (initialize_steps /\ call.at = "mkdir" /\ call'.at # "False")
              => (call'.at = "clone" /\ worktree.dir = "missing")
          /\ (initialize_steps /\ worktree.dir = "valid")
              => /\ worktree'.dir = "valid"
                 /\ call'.at \notin {"rmtree", "mkdir", "clone"}
                 /\ call.at \in UpdateCommands
                       => call'.at \in UpdateCommands \cup {"True"}
          /\ (initialize_steps /\ call.at = "update_fetch")
              => call'.at = "True"
          /\ (initialize_steps /\ call.at = "rev_parse"
               /\ worktree.dir = "invalid" /\ call'.at # "False")
              => call'.at = "rmtree"
          /\ (initialize_steps /\ call.at = "rmtree" /\ call'.at # "False")
              => (call'.at = "mkdir" /\ worktree'.dir = "missing")
          /\ (initialize_steps /\ call.prev.name = "initialize_repo"
               /\ call.prev.at = "True" /\ ~call'.faults)
              => /\ worktree' = worktree
                 /\ call'.at \in UpdateCommands \cup {"True"}]_vars
    /\ []((call.name = "initialize_repo" /\ call.at = "True")
             => worktree.dir = "valid")
    /\ []((call.name = "initialize_repo" /\ call.at \in {"True", "False"}
            /\ ~call.faults)
             => (call.at = "True" /\ worktree.head \in {"main", "unborn"}))

\* A second call in a row has returned success, no step of either call
\* having met a fault, on a working copy with changes in it.
C28_Witness ==
    /\ call.name = "initialize_repo"
    /\ call.at = "True"
    /\ ~call.faults
    /\ call.prev.name = "initialize_repo"
    /\ call.prev.at = "True"
    /\ worktree.modified
    /\ worktree.branches # {}


\* C31: when the write of the file fails inside _save_processed_issues, the
\* call (mark_processed, mark_failed, cleanup_old_issues) returns normally
\* with its change made in memory, the file still loads as it did before
\* the call, and a restart that follows reloads that older ledger.
C31_FailedWriteKeepsStore ==
    [][\A c \in LedgerCalls, at \in WriteFaults :
          SaveFails(c, at) =>
             /\ processed_issues' = call_result(c)[1]
             /\ failed_attempts' = call_result(c)[2]
             /\ load_processed_issues(storage') = load_processed_issues(storage)]_vars

====
